---- MODULE Spec2Model ----
(***************************************************************************)
(* The in-memory image-metadata cache of cloudinary-server.ts: the table   *)
(* imageCache, the running counter currentCacheSize, request coalescing in *)
(* getCloudinaryImagesByTag, evictLRUEntries, cleanupExpiredEntries and    *)
(* the protected /api/cache/clear endpoint.                                *)
(*                                                                         *)
(* JavaScript runs one task at a time, so every action below is the code   *)
(* that runs between two suspension points: the synchronous part of a      *)
(* getCloudinaryImagesByTag call, the continuation after the provider's    *)
(* await (success or rejection), one timer callback, one admin request.    *)
(***************************************************************************)
EXTENDS Integers, Sequences, FiniteSets, TLC

VARIABLES imageCache, currentCacheSize, now, fetches, ret, cleanupInterval, timers

vars == <<imageCache, currentCacheSize, now, fetches, ret, cleanupInterval, timers>>

(* The timer state: cleanupInterval (line 88; 0 for undefined) and the ids *)
(* of the repeating timers that exist.                                     *)
timerVars == <<cleanupInterval, timers>>

----------------------------------------------------------------------------
(* Program constants.  MAX_CACHE_ENTRIES (20 in the source) and            *)
(* MAX_CACHE_SIZE (50 MiB in the source) are scaled down so that both      *)
(* limits are crossed with three tags and lists of at most two images;     *)
(* CACHE_DURATION and the 1024 bytes per image are the source's.           *)
CACHE_DURATION == 300000

MAX_CACHE_ENTRIES == 2

MAX_CACHE_SIZE == 3 * 1024

(* Bounds of the model. *)
StartTime == 1000000

MaxFetches == 2

Tags == {"street", "portrait"}

(* Three tags cross MAX_CACHE_ENTRIES; one tag isolates the coalescer. *)
ManyTags == {"street", "portrait", "nature"}

OneTag == {"street"}

(* Date.now() as seen by successive tasks: the start, one millisecond      *)
(* later, and one cache duration after each, so that the ages              *)
(* CACHE_DURATION - 1, CACHE_DURATION and CACHE_DURATION + 1 all occur.    *)
ClockValues == {StartTime, StartTime + 1,
                StartTime + CACHE_DURATION, StartTime + CACHE_DURATION + 1}

(* What the provider can answer: n image records, newest first. *)
ImageList(n) == [i \in 1..n |-> n + 1 - i]

ProviderLists == {ImageList(0), ImageList(1), ImageList(2)}

(* Answers that keep three entries within MAX_CACHE_SIZE. *)
SmallLists == {ImageList(0), ImageList(1)}

(* Answers two of which exceed MAX_CACHE_SIZE. *)
BigLists == {ImageList(2)}

(* Answers one of which exceeds MAX_CACHE_SIZE on its own. *)
HugeLists == {ImageList(1), ImageList(4)}

(* The values of CACHE_API_KEY (<<>>: unset or empty) and the              *)
(* Authorization headers tried (<<>>: no header).                          *)
Secret == <<"k", "1">>

ApiKeys == {<<>>, Secret}

BearerPrefix == <<"B", "e", "a", "r", "e", "r", " ">>

Headers == {<<>>, BearerPrefix \o Secret, BearerPrefix \o <<"K", "1">>}

(* Authorization headers around the right one: none, no credential, the   *)
(* secret in another case, cut short, extended, under another scheme of    *)
(* seven characters, under the scheme in lower case, and with no scheme.   *)
AdminHeaders ==
    {<<>>,
     BearerPrefix,
     BearerPrefix \o Secret,
     BearerPrefix \o <<"K", "1">>,
     BearerPrefix \o <<"k">>,
     BearerPrefix \o <<"k", "1", "x">>,
     <<"T", "o", "k", "e", "n", ":", " ">> \o Secret,
     <<"b", "e", "a", "r", "e", "r", " ">> \o Secret,
     Secret}

----------------------------------------------------------------------------
(* The table: a JavaScript object, i.e. entries in key insertion order. *)
Keys(cache) == {cache[i].tag : i \in 1..Len(cache)}

Has(cache, tag) == tag \in Keys(cache)

Get(cache, tag) == cache[CHOOSE i \in 1..Len(cache) : cache[i].tag = tag]

(* imageCache[tag] = e: an existing key keeps its place, a new key is last. *)
Put(cache, e) ==
    IF Has(cache, e.tag)
    THEN [i \in 1..Len(cache) |-> IF cache[i].tag = e.tag THEN e ELSE cache[i]]
    ELSE Append(cache, e)

(* delete imageCache[tag] *)
Del(cache, tag) == SelectSeq(cache, LAMBDA e : e.tag # tag)

RECURSIVE SumSizes(_)
SumSizes(cache) ==
    IF cache = <<>> THEN 0 ELSE Head(cache).sizeBytes + SumSizes(Tail(cache))

calculateImageDataSize(images) == Len(images) * 1024

Last(s) == s[Len(s)]

Front(s) == SubSeq(s, 1, Len(s) - 1)

(* Array.prototype.sort with the comparator a.lastAccessed - b.lastAccessed *)
(* (stable: equal keys keep their order).                                   *)
RECURSIVE InsertByAccess(_, _)
InsertByAccess(sorted, e) ==
    IF sorted = <<>> THEN <<e>>
    ELSE IF Last(sorted).lastAccessed <= e.lastAccessed THEN Append(sorted, e)
    ELSE Append(InsertByAccess(Front(sorted), e), Last(sorted))

(* Faulty variant: the array is left in insertion order (first in, first  *)
(* out).                                                                   *)
SortByInsertion(entries) == entries

RECURSIVE SortByLastAccessed(_)
SortByLastAccessed(entries) ==
    IF entries = <<>> THEN <<>>
    ELSE InsertByAccess(SortByLastAccessed(Front(entries)), Last(entries))

(* Faulty variant: the loop stops at the first pending entry (break for    *)
(* continue).                                                              *)
RECURSIVE EvictLoopBreak(_, _, _)
EvictLoopBreak(entries, cache, size) ==
    IF (Len(entries) > MAX_CACHE_ENTRIES \/ size > MAX_CACHE_SIZE) /\ Len(entries) > 0
    THEN LET entry == Head(entries) IN
         IF entry.promise # 0
         THEN [cache |-> cache, size |-> size]
         ELSE EvictLoopBreak(Tail(entries), Del(cache, entry.tag), size - entry.sizeBytes)
    ELSE [cache |-> cache, size |-> size]

(* The while loop of evictLRUEntries: entries is the local array, which    *)
(* shrinks by one per iteration whether or not the entry was deleted.      *)
RECURSIVE EvictLoop(_, _, _)
EvictLoop(entries, cache, size) ==
    IF (Len(entries) > MAX_CACHE_ENTRIES \/ size > MAX_CACHE_SIZE) /\ Len(entries) > 0
    THEN LET entry == Head(entries) IN
         IF entry.promise # 0
         THEN EvictLoop(Tail(entries), cache, size)
         ELSE EvictLoop(Tail(entries), Del(cache, entry.tag), size - entry.sizeBytes)
    ELSE [cache |-> cache, size |-> size]

(* Faulty variant: the limits are tested with >=, so a table exactly at a  *)
(* limit loses its least recently used entry.                              *)
evictLRUEntriesAtLimit(cache, size) ==
    LET idle == SortByLastAccessed(SelectSeq(cache, LAMBDA e : e.promise = 0)) IN
    IF (Len(cache) < MAX_CACHE_ENTRIES /\ size < MAX_CACHE_SIZE) \/ idle = <<>>
    THEN [cache |-> cache, size |-> size]
    ELSE [cache |-> Del(cache, Head(idle).tag), size |-> size - Head(idle).sizeBytes]

evictLRUEntries(cache, size) ==
    IF Len(cache) <= MAX_CACHE_ENTRIES /\ size <= MAX_CACHE_SIZE
    THEN [cache |-> cache, size |-> size]
    ELSE EvictLoop(SortByLastAccessed(cache), cache, size)

(* Faulty variant: an entry aged exactly CACHE_DURATION is swept too. *)
RECURSIVE CleanupLoopInclusive(_, _, _, _, _)
CleanupLoopInclusive(entries, cache, size, cleaned, t) ==
    IF entries = <<>> THEN [cache |-> cache, size |-> size, cleaned |-> cleaned]
    ELSE LET entry == Head(entries) IN
         IF entry.promise # 0
         THEN CleanupLoopInclusive(Tail(entries), cache, size, cleaned, t)
         ELSE IF t - entry.lastFetched >= CACHE_DURATION
         THEN CleanupLoopInclusive(Tail(entries), Del(cache, entry.tag),
                                   size - entry.sizeBytes, cleaned + 1, t)
         ELSE CleanupLoopInclusive(Tail(entries), cache, size, cleaned, t)

(* Faulty variant: the run ends at the first entry it removes. *)
RECURSIVE CleanupLoopFirstOnly(_, _, _, _, _)
CleanupLoopFirstOnly(entries, cache, size, cleaned, t) ==
    IF entries = <<>> THEN [cache |-> cache, size |-> size, cleaned |-> cleaned]
    ELSE LET entry == Head(entries) IN
         IF entry.promise # 0
         THEN CleanupLoopFirstOnly(Tail(entries), cache, size, cleaned, t)
         ELSE IF t - entry.lastFetched > CACHE_DURATION
         THEN [cache |-> Del(cache, entry.tag), size |-> size - entry.sizeBytes,
               cleaned |-> cleaned + 1]
         ELSE CleanupLoopFirstOnly(Tail(entries), cache, size, cleaned, t)

(* Faulty variant: the sweep without the test of line 71. *)
RECURSIVE CleanupLoopNoSkip(_, _, _, _, _)
CleanupLoopNoSkip(entries, cache, size, cleaned, t) ==
    IF entries = <<>> THEN [cache |-> cache, size |-> size, cleaned |-> cleaned]
    ELSE LET entry == Head(entries) IN
         IF t - entry.lastFetched > CACHE_DURATION
         THEN CleanupLoopNoSkip(Tail(entries), Del(cache, entry.tag),
                                size - entry.sizeBytes, cleaned + 1, t)
         ELSE CleanupLoopNoSkip(Tail(entries), cache, size, cleaned, t)

(* The for loop of cleanupExpiredEntries over a snapshot of the entries. *)
RECURSIVE CleanupLoop(_, _, _, _, _)
CleanupLoop(entries, cache, size, cleaned, t) ==
    IF entries = <<>> THEN [cache |-> cache, size |-> size, cleaned |-> cleaned]
    ELSE LET entry == Head(entries) IN
         IF entry.promise # 0
         THEN CleanupLoop(Tail(entries), cache, size, cleaned, t)
         ELSE IF t - entry.lastFetched > CACHE_DURATION
         THEN CleanupLoop(Tail(entries), Del(cache, entry.tag),
                          size - entry.sizeBytes, cleaned + 1, t)
         ELSE CleanupLoop(Tail(entries), cache, size, cleaned, t)

cleanupExpiredEntries(cache, size, t) == CleanupLoop(cache, cache, size, 0, t)

(* validateCacheApiAccess: an unset or empty key denies everybody. *)
StartsWith(s, prefix) ==
    Len(s) >= Len(prefix) /\ SubSeq(s, 1, Len(prefix)) = prefix

Slice(s, n) == SubSeq(s, n + 1, Len(s))

(* Faulty variant: no test that a key is configured (line 108). *)
validateWithoutKeyTest(key, authHeader) ==
    IF authHeader = <<>> \/ ~StartsWith(authHeader, BearerPrefix) THEN FALSE
    ELSE Slice(authHeader, 7) = key

(* Faulty variant: the credential only has to begin with the key. *)
validateKeyPrefix(key, authHeader) ==
    IF key = <<>> THEN FALSE
    ELSE IF authHeader = <<>> \/ ~StartsWith(authHeader, BearerPrefix) THEN FALSE
    ELSE StartsWith(Slice(authHeader, 7), key)

validateCacheApiAccess(key, authHeader) ==
    IF key = <<>> THEN FALSE
    ELSE IF authHeader = <<>> \/ ~StartsWith(authHeader, BearerPrefix) THEN FALSE
    ELSE Slice(authHeader, 7) = key

----------------------------------------------------------------------------
(* getCloudinaryImagesByTag *)

(* `cached`: the entry object read at line 210, <<>> when there is none. *)
Cached(cache, tag) == IF Has(cache, tag) THEN <<Get(cache, tag)>> ELSE <<>>

(* Faulty variant: an empty images array counted as no cache. *)
IsValidCacheNonEmpty(cached, t) ==
    /\ cached # <<>>
    /\ Len(cached[1].images) > 0
    /\ (t - cached[1].lastFetched) < CACHE_DURATION

(* Faulty variant: an entry aged exactly CACHE_DURATION still counts. *)
IsValidCacheInclusive(cached, t) ==
    cached # <<>> /\ (t - cached[1].lastFetched) <= CACHE_DURATION

(* The test of line 213 (an images array is always truthy). *)
IsValidCache(cached, t) ==
    cached # <<>> /\ (t - cached[1].lastFetched) < CACHE_DURATION

(* Faulty variant: the placeholder drops the stale images. *)
PlaceholderEmptied(tag, cached, f, t) ==
    [tag |-> tag,
     images |-> <<>>,
     promise |-> f,
     lastFetched |-> IF cached # <<>> THEN cached[1].lastFetched ELSE 0,
     lastAccessed |-> t,
     count |-> 0,
     sizeBytes |-> 0]

(* Faulty variant: the placeholder keeps the stale images but starts its   *)
(* size at zero.                                                           *)
PlaceholderUnsized(tag, cached, f, t) ==
    [tag |-> tag,
     images |-> IF cached # <<>> THEN cached[1].images ELSE <<>>,
     promise |-> f,
     lastFetched |-> IF cached # <<>> THEN cached[1].lastFetched ELSE 0,
     lastAccessed |-> t,
     count |-> IF cached # <<>> THEN cached[1].count ELSE 0,
     sizeBytes |-> 0]

(* Faulty variant: the placeholder stamped with the time of the call. *)
PlaceholderStamped(tag, cached, f, t) ==
    [tag |-> tag,
     images |-> IF cached # <<>> THEN cached[1].images ELSE <<>>,
     promise |-> f,
     lastFetched |-> t,
     lastAccessed |-> t,
     count |-> IF cached # <<>> THEN cached[1].count ELSE 0,
     sizeBytes |-> IF cached # <<>> THEN cached[1].sizeBytes ELSE 0]

(* The entry stored at line 262 while the fetch f is in flight. *)
Placeholder(tag, cached, f, t) ==
    [tag |-> tag,
     images |-> IF cached # <<>> THEN cached[1].images ELSE <<>>,
     promise |-> f,
     lastFetched |-> IF cached # <<>> THEN cached[1].lastFetched ELSE 0,
     lastAccessed |-> t,
     count |-> IF cached # <<>> THEN cached[1].count ELSE 0,
     sizeBytes |-> IF cached # <<>> THEN cached[1].sizeBytes ELSE 0]

(* Faulty variant: the stored list loses its last image. *)
FetchedEntryTruncated(tag, images, t) ==
    [tag |-> tag, images |-> Front(images), promise |-> 0, lastFetched |-> t,
     lastAccessed |-> t, count |-> Len(images),
     sizeBytes |-> calculateImageDataSize(images)]

(* Faulty variant: an empty answer is stored without a fetch time. *)
FetchedEntryEmptyUnstamped(tag, images, t) ==
    [tag |-> tag, images |-> images, promise |-> 0,
     lastFetched |-> IF images = <<>> THEN 0 ELSE t,
     lastAccessed |-> t, count |-> Len(images),
     sizeBytes |-> calculateImageDataSize(images)]

(* The entry stored at line 244 when the fetch has succeeded. *)
FetchedEntry(tag, images, t) ==
    [tag |-> tag, images |-> images, promise |-> 0, lastFetched |-> t,
     lastAccessed |-> t, count |-> Len(images),
     sizeBytes |-> calculateImageDataSize(images)]

(* Lines 234-238: the counter after the old size is replaced by the new. *)
SizeAfterFetch(size, cached, dataSize) ==
    (IF cached # <<>> /\ cached[1].sizeBytes # 0 THEN size - cached[1].sizeBytes
     ELSE size) + dataSize

(* What a settled call hands to its caller. *)
NoReturn == [st |-> "none", images |-> <<>>]

Resolved(images) == [st |-> "resolved", images |-> images]

Rejected == [st |-> "rejected", images |-> <<>>]

(* Lines 272-287: the initiator's catch handler answers stale images or []. *)
CatchResult(cached) ==
    IF cached # <<>> /\ Len(cached[1].images) > 0
    THEN Resolved(cached[1].images)
    ELSE Resolved(<<>>)

(* Line 222 hands the joiner the fetch promise itself, without the catch   *)
(* handler of line 272: it settles as the fetch promise settles.           *)
JoinerResult(settled) == settled

(* Faulty variant: the marker is cleared without the test that it is this *)
(* fetch's.                                                                *)
ClearFailedPromiseUnguarded(cache, tag, f) ==
    IF Has(cache, tag)
    THEN Put(cache, [Get(cache, tag) EXCEPT !.promise = 0])
    ELSE cache

(* Faulty variant: the marker is cleared only when there is no stale data *)
(* to hand back.                                                           *)
ClearFailedPromiseUnlessStale(cache, tag, f) ==
    IF Has(cache, tag) /\ Get(cache, tag).promise = f /\ Get(cache, tag).images = <<>>
    THEN Put(cache, [Get(cache, tag) EXCEPT !.promise = 0])
    ELSE cache

(* Faulty variant: the failed promise is left in the entry. *)
ClearFailedPromiseNever(cache, tag, f) == cache

(* Lines 276-278: the marker is cleared only if it is still this fetch's. *)
ClearFailedPromise(cache, tag, f) ==
    IF Has(cache, tag) /\ Get(cache, tag).promise = f
    THEN Put(cache, [Get(cache, tag) EXCEPT !.promise = 0])
    ELSE cache

InFlight(f) == fetches[f].status = "inflight"

(* A fetch: the promise created at line 227 with the variables it closes   *)
(* over.  joined records that some call was handed the promise at line     *)
(* 222; cleared records that /api/cache/clear ran while it was in flight;  *)
(* overlap records that another fetch was in flight when it started.       *)
NewFetch(tag, cached) ==
    [tag |-> tag, cached |-> cached, status |-> "inflight", joined |-> FALSE,
     cleared |-> FALSE,
     overlap |-> \E g \in 1..Len(fetches) : InFlight(g)]

(* A settled promise: nothing reads its closure any more. *)
Settled(fetch) ==
    [tag |-> fetch.tag, cached |-> <<>>, status |-> "settled", joined |-> FALSE,
     cleared |-> FALSE, overlap |-> fetch.overlap]

(* ret: what the task that just ran handed back. *)
Ret(kind, tag, init, join, n, size) ==
    [kind |-> kind, tag |-> tag, init |-> init, join |-> join, n |-> n, size |-> size]

(* The synchronous part of one call: hit, join, or start a fetch (the      *)
(* model starts at most `limit` fetches).                                  *)
GetImagesUpTo(tag, limit) ==
    LET cached == Cached(imageCache, tag) IN
    /\ IF IsValidCache(cached, now)
       THEN /\ imageCache' = Put(imageCache, [cached[1] EXCEPT !.lastAccessed = now])
            /\ ret' = Ret("hit", tag, Resolved(cached[1].images), NoReturn, 0, 0)
            /\ UNCHANGED fetches
       ELSE IF cached # <<>> /\ cached[1].promise # 0
       THEN /\ fetches' = [fetches EXCEPT ![cached[1].promise].joined = TRUE]
            /\ ret' = Ret("join", tag, NoReturn, NoReturn, 0, 0)
            /\ UNCHANGED imageCache
       ELSE /\ Len(fetches) < limit
            /\ fetches' = Append(fetches, NewFetch(tag, cached))
            /\ imageCache' = Put(imageCache,
                                 Placeholder(tag, cached, Len(fetches) + 1, now))
            /\ ret' = Ret("fetch", tag, NoReturn, NoReturn, 0, 0)
    /\ UNCHANGED <<currentCacheSize, now>>
    /\ UNCHANGED timerVars

GetImages(tag) == GetImagesUpTo(tag, MaxFetches)

GetImagesMore(tag) == GetImagesUpTo(tag, MaxFetches + 1)

(* Faulty variant: the eviction pass runs after the new entry is stored. *)
FetchSuccessEvictAfter(f, images) ==
    /\ InFlight(f)
    /\ LET tag == fetches[f].tag
           cached == fetches[f].cached
           dataSize == calculateImageDataSize(images)
           evicted == evictLRUEntries(Put(imageCache, FetchedEntry(tag, images, now)),
                                      SizeAfterFetch(currentCacheSize, cached, dataSize))
       IN /\ imageCache' = evicted.cache
          /\ currentCacheSize' = evicted.size
          /\ fetches' = [fetches EXCEPT ![f] = Settled(fetches[f])]
          /\ ret' = Ret("fetched", tag, Resolved(images),
                        IF fetches[f].joined THEN JoinerResult(Resolved(images))
                        ELSE NoReturn,
                        Len(images), 0)
    /\ UNCHANGED now
    /\ UNCHANGED timerVars

(* The provider answered `images`: lines 231-258, then every waiter. *)
FetchSuccess(f, images) ==
    /\ InFlight(f)
    /\ LET tag == fetches[f].tag
           cached == fetches[f].cached
           dataSize == calculateImageDataSize(images)
           evicted == evictLRUEntries(imageCache,
                                      SizeAfterFetch(currentCacheSize, cached, dataSize))
       IN /\ imageCache' = Put(evicted.cache, FetchedEntry(tag, images, now))
          /\ currentCacheSize' = evicted.size
          /\ fetches' = [fetches EXCEPT ![f] = Settled(fetches[f])]
          /\ ret' = Ret("fetched", tag, Resolved(images),
                        IF fetches[f].joined THEN JoinerResult(Resolved(images))
                        ELSE NoReturn,
                        Len(images), 0)
    /\ UNCHANGED now
    /\ UNCHANGED timerVars

(* The fetch promise rejected (the provider's payload had no resources, so *)
(* line 34 threw before any counter changed): lines 272-287.               *)
FetchFailure(f) ==
    /\ InFlight(f)
    /\ imageCache' = ClearFailedPromise(imageCache, fetches[f].tag, f)
    /\ fetches' = [fetches EXCEPT ![f] = Settled(fetches[f])]
    /\ ret' = Ret("failed", fetches[f].tag, CatchResult(fetches[f].cached),
                  IF fetches[f].joined THEN JoinerResult(Rejected) ELSE NoReturn,
                  0, 0)
    /\ UNCHANGED <<currentCacheSize, now>>
    /\ UNCHANGED timerVars

(* The setInterval callback of startPeriodicCleanup. *)
Sweep ==
    LET swept == cleanupExpiredEntries(imageCache, currentCacheSize, now) IN
    /\ timers # {}
    /\ imageCache' = swept.cache
    /\ currentCacheSize' = swept.size
    /\ ret' = Ret("swept", "", NoReturn, NoReturn, swept.cleaned, 0)
    /\ UNCHANGED <<now, fetches>>
    /\ UNCHANGED timerVars

(* Lines 521-529: the answer to a request that validateCacheApiAccess      *)
(* refuses, status 401 with a WWW-Authenticate challenge.                  *)
UnauthorizedResponse ==
    [kind |-> "unauthorized", tag |-> "", init |-> NoReturn, join |-> NoReturn,
     n |-> 0, size |-> 0, status |-> 401, wwwAuthenticate |-> "Bearer realm"]

(* Math.round(a / b) for b > 0: the nearest integer, halves upwards. *)
Round(a, b) == (2 * a + b) \div (2 * b)

(* Faulty variant: the size reported is the running counter. *)
ClearedSizeFromCounter(cache) == currentCacheSize

(* handler, for a request to /api/cache/clear. *)
RECURSIVE ClearedSize(_)
ClearedSize(cache) ==
    IF cache = <<>> THEN 0 ELSE Head(cache).sizeBytes + ClearedSize(Tail(cache))

(* Faulty variant: entries with a fetch in flight survive the clear. *)
ClearTableKeepPending(cache) == SelectSeq(cache, LAMBDA e : e.promise # 0)

(* The for-in loop of lines 536-540 deletes every key. *)
ClearTable(cache) == SelectSeq(cache, LAMBDA e : FALSE)

(* Faulty variant: the table is emptied before the credential is looked   *)
(* at.                                                                     *)
CacheClearUnguarded(key, authHeader) ==
    /\ imageCache' = ClearTable(imageCache)
    /\ currentCacheSize' = 0
    /\ ret' = IF ~validateCacheApiAccess(key, authHeader)
              THEN UnauthorizedResponse
              ELSE Ret("cleared", "", NoReturn, NoReturn, Len(imageCache),
                       Round(ClearedSize(imageCache), 1024))
    /\ UNCHANGED <<now, fetches>>
    /\ UNCHANGED timerVars

CacheClear(key, authHeader) ==
    /\ IF ~validateCacheApiAccess(key, authHeader)
       THEN /\ ret' = UnauthorizedResponse
            /\ UNCHANGED <<imageCache, currentCacheSize, fetches>>
       ELSE /\ imageCache' = ClearTable(imageCache)
            /\ currentCacheSize' = 0
            /\ ret' = Ret("cleared", "", NoReturn, NoReturn, Len(imageCache),
                          Round(ClearedSize(imageCache), 1024))
            /\ fetches' = [f \in 1..Len(fetches) |->
                             IF InFlight(f) THEN [fetches[f] EXCEPT !.cleared = TRUE]
                             ELSE fetches[f]]
    /\ UNCHANGED now
    /\ UNCHANGED timerVars

(* new Date(ms).toISOString(): the timestamp as a date string. *)
ToISOString(ms) == [iso |-> ms]

(* Faulty variant: expired computed from the last access. *)
StatusEntryByAccess(data, t) ==
    [tag |-> data.tag,
     imageCount |-> data.count,
     sizeKB |-> Round(data.sizeBytes, 1024),
     lastFetched |-> ToISOString(data.lastFetched),
     lastAccessed |-> ToISOString(data.lastAccessed),
     ageSeconds |-> (t - data.lastFetched) \div 1000,
     expired |-> t - data.lastAccessed > CACHE_DURATION,
     hasActiveRequest |-> data.promise # 0]

(* One element of the array built at lines 557-566. *)
StatusEntry(data, t) ==
    [tag |-> data.tag,
     imageCount |-> data.count,
     sizeKB |-> Round(data.sizeBytes, 1024),
     lastFetched |-> ToISOString(data.lastFetched),
     lastAccessed |-> ToISOString(data.lastAccessed),
     ageSeconds |-> (t - data.lastFetched) \div 1000,
     expired |-> t - data.lastFetched > CACHE_DURATION,
     hasActiveRequest |-> data.promise # 0]

(* The body of the status response; totalSizeMB in hundredths of a MiB. *)
StatusBody(cache, size, t) ==
    [cacheEntries |-> [i \in 1..Len(cache) |-> StatusEntry(cache[i], t)],
     totalEntries |-> Len(cache),
     totalSizeMB |-> Round(size * 100, 1024 * 1024),
     maxSizeMB |-> MAX_CACHE_SIZE \div (1024 * 1024),
     maxEntries |-> MAX_CACHE_ENTRIES,
     cacheDurationSeconds |-> CACHE_DURATION \div 1000]

(* handler, for a request to /api/cache/status. *)
CacheStatus(key, authHeader) ==
    /\ IF ~validateCacheApiAccess(key, authHeader)
       THEN ret' = UnauthorizedResponse
       ELSE ret' = [kind |-> "status", tag |-> "", init |-> NoReturn,
                    join |-> NoReturn, n |-> 0, size |-> 0,
                    body |-> StatusBody(imageCache, currentCacheSize, now)]
    /\ UNCHANGED <<imageCache, currentCacheSize, now, fetches>>
    /\ UNCHANGED timerVars

(* saveContent of scripts/edit-content.ts: the editor, a process of its    *)
(* own, rewrites content.json.  The server reads the file again at every   *)
(* request (line 582); nothing of the image cache is touched.              *)
EditContent ==
    /\ ret' = Ret("edited", "", NoReturn, NoReturn, 0, 0)
    /\ UNCHANGED <<imageCache, currentCacheSize, now, fetches>>
    /\ UNCHANGED timerVars

(* setInterval: a new repeating timer; ids are positive and count up, and  *)
(* no timer is ever cancelled (the source has no clearInterval).           *)
SetInterval(ts) == Cardinality(ts) + 1

(* Faulty variant: a timer is created at every call. *)
StartPeriodicCleanupUnguarded ==
    /\ cleanupInterval' = SetInterval(timers)
    /\ timers' = timers \cup {SetInterval(timers)}
    /\ ret' = Ret(IF cleanupInterval # 0 THEN "running" ELSE "started",
                  "", NoReturn, NoReturn, 0, 0)
    /\ UNCHANGED <<imageCache, currentCacheSize, now, fetches>>

(* startPeriodicCleanup, lines 90-101: "running" is the early return of    *)
(* line 92.                                                                *)
StartPeriodicCleanup ==
    /\ IF cleanupInterval # 0
       THEN /\ ret' = Ret("running", "", NoReturn, NoReturn, 0, 0)
            /\ UNCHANGED timerVars
       ELSE /\ cleanupInterval' = SetInterval(timers)
            /\ timers' = timers \cup {SetInterval(timers)}
            /\ ret' = Ret("started", "", NoReturn, NoReturn, 0, 0)
    /\ UNCHANGED <<imageCache, currentCacheSize, now, fetches>>

(* Date.now() moves on between tasks. *)
Tick(t) ==
    /\ t > now
    /\ now' = t
    /\ ret' = Ret("none", "", NoReturn, NoReturn, 0, 0)
    /\ UNCHANGED <<imageCache, currentCacheSize, fetches>>
    /\ UNCHANGED timerVars

(* The module is loaded: nothing has run yet. *)
InitLoaded ==
    /\ imageCache = <<>>
    /\ currentCacheSize = 0
    /\ now = StartTime
    /\ fetches = <<>>
    /\ ret = Ret("none", "", NoReturn, NoReturn, 0, 0)
    /\ cleanupInterval = 0
    /\ timers = {}

(* The server is up: the main block has called startPeriodicCleanup (line  *)
(* 635).                                                                   *)
Init ==
    /\ imageCache = <<>>
    /\ currentCacheSize = 0
    /\ now = StartTime
    /\ fetches = <<>>
    /\ ret = Ret("none", "", NoReturn, NoReturn, 0, 0)
    /\ cleanupInterval = SetInterval({})
    /\ timers = {SetInterval({})}

Next ==
    \/ \E tag \in Tags : GetImages(tag)
    \/ \E f \in 1..Len(fetches) : \E images \in ProviderLists : FetchSuccess(f, images)
    \/ \E f \in 1..Len(fetches) : FetchFailure(f)
    \/ Sweep
    \/ \E key \in ApiKeys : \E authHeader \in Headers : CacheClear(key, authHeader)
    \/ \E t \in ClockValues : Tick(t)

Spec == Init /\ [][Next]_vars

(* One tag, one more fetch: the coalescer against clear, sweep and expiry. *)
NextRace ==
    \/ \E tag \in OneTag : GetImagesMore(tag)
    \/ \E f \in 1..Len(fetches) : \E images \in ProviderLists : FetchSuccess(f, images)
    \/ \E f \in 1..Len(fetches) : FetchFailure(f)
    \/ Sweep
    \/ \E key \in ApiKeys : \E authHeader \in Headers : CacheClear(key, authHeader)
    \/ \E t \in ClockValues : Tick(t)

SpecRace == Init /\ [][NextRace]_vars

(* Three tags, one more fetch, no clear: the entry bound of the eviction   *)
(* pass.                                                                   *)
NextLRU ==
    \/ \E tag \in ManyTags : GetImagesMore(tag)
    \/ \E f \in 1..Len(fetches) : \E images \in SmallLists : FetchSuccess(f, images)
    \/ \E f \in 1..Len(fetches) : FetchFailure(f)
    \/ Sweep
    \/ \E t \in ClockValues : Tick(t)

SpecLRU == Init /\ [][NextLRU]_vars

(* The provider answers or fails: the fetch f settles. *)
Settle(f) ==
    /\ f \in 1..Len(fetches)
    /\ \/ \E images \in SmallLists : FetchSuccess(f, images)
       \/ FetchFailure(f)

(* Calls, completions and the timer, with no operator at the admin         *)
(* endpoints.                                                              *)
NextLive ==
    \/ \E tag \in Tags : GetImages(tag)
    \/ \E f \in 1..Len(fetches) : \E images \in SmallLists : FetchSuccess(f, images)
    \/ \E f \in 1..Len(fetches) : FetchFailure(f)
    \/ Sweep
    \/ \E t \in ClockValues : Tick(t)

(* The scheduling the runtime guarantees: the interval timer of line 95    *)
(* keeps firing and every provider call returns or throws.                 *)
SpecLive ==
    /\ Init
    /\ [][NextLive]_vars
    /\ WF_vars(Sweep)
    /\ \A f \in 1..MaxFetches : WF_vars(Settle(f))

(* Every operation on two tags, the status query included, with           *)
(* CACHE_API_KEY configured.                                               *)
NextAll ==
    \/ \E tag \in Tags : GetImages(tag)
    \/ \E f \in 1..Len(fetches) : \E images \in ProviderLists : FetchSuccess(f, images)
    \/ \E f \in 1..Len(fetches) : FetchFailure(f)
    \/ Sweep
    \/ \E authHeader \in Headers : CacheClear(Secret, authHeader)
    \/ \E t \in ClockValues : Tick(t)
    \/ \E authHeader \in Headers : CacheStatus(Secret, authHeader)

SpecAll == Init /\ [][NextAll]_vars

(* The admin endpoints against one tag's cache. *)
NextAdmin ==
    \/ \E tag \in OneTag : GetImages(tag)
    \/ \E f \in 1..Len(fetches) : \E images \in ProviderLists : FetchSuccess(f, images)
    \/ \E f \in 1..Len(fetches) : FetchFailure(f)
    \/ \E key \in ApiKeys : \E authHeader \in AdminHeaders : CacheClear(key, authHeader)
    \/ \E key \in ApiKeys : \E authHeader \in AdminHeaders : CacheStatus(key, authHeader)
    \/ \E t \in ClockValues : Tick(t)

SpecAdmin == Init /\ [][NextAdmin]_vars

(* Two tags, one more fetch, answers of two images: the size bound of the  *)
(* eviction pass.                                                          *)
NextSize ==
    \/ \E tag \in Tags : GetImagesMore(tag)
    \/ \E f \in 1..Len(fetches) : \E images \in BigLists : FetchSuccess(f, images)
    \/ \E f \in 1..Len(fetches) : FetchFailure(f)
    \/ Sweep
    \/ \E authHeader \in Headers : CacheClear(Secret, authHeader)
    \/ \E t \in ClockValues : Tick(t)

SpecSize == Init /\ [][NextSize]_vars

(* The admin endpoints when CACHE_API_KEY is unset or empty. *)
NextNoKey ==
    \/ \E tag \in OneTag : GetImages(tag)
    \/ \E f \in 1..Len(fetches) : \E images \in ProviderLists : FetchSuccess(f, images)
    \/ \E f \in 1..Len(fetches) : FetchFailure(f)
    \/ \E authHeader \in AdminHeaders : CacheClear(<<>>, authHeader)
    \/ \E authHeader \in AdminHeaders : CacheStatus(<<>>, authHeader)
    \/ \E t \in ClockValues : Tick(t)

SpecNoKey == Init /\ [][NextNoKey]_vars

(* One tag's cache while the site content is edited. *)
NextEdit ==
    \/ \E tag \in OneTag : GetImages(tag)
    \/ \E f \in 1..Len(fetches) : \E images \in ProviderLists : FetchSuccess(f, images)
    \/ \E f \in 1..Len(fetches) : FetchFailure(f)
    \/ Sweep
    \/ EditContent
    \/ \E t \in ClockValues : Tick(t)

SpecEdit == Init /\ [][NextEdit]_vars

----------------------------------------------------------------------------
(* Properties. *)

SameTagInFlight(f, g) ==
    /\ f < g
    /\ fetches[f].tag = fetches[g].tag
    /\ InFlight(f)
    /\ InFlight(g)

(* C1: coalescing.  When a call finds no entry for its tag and starts a    *)
(* fetch, no later call for that tag made before that fetch settles, with  *)
(* no clear in between, invokes the provider again: a fetch that began     *)
(* with no entry and has seen no clear is never in flight together with a  *)
(* younger fetch for the same tag.                                         *)
C1_CoalescedOnce ==
    \A f, g \in 1..Len(fetches) :
        (SameTagInFlight(f, g) /\ fetches[f].cached = <<>>) => fetches[f].cleared

(* C2: a failed fetch hands every waiter an image list: the initiator and  *)
(* the joiners are resolved, never rejected, and without stale images all  *)
(* of them get the same empty list.                                        *)
C2_FailureNeverRejects ==
    ret.kind = "failed" =>
        /\ ret.init.st = "resolved"
        /\ ret.join.st # "rejected"
        /\ (ret.init.images = <<>> /\ ret.join.st = "resolved") => ret.join.images = <<>>

(* C3: at most one provider fetch is in flight for any tag, whatever the   *)
(* interleaving of calls, completions, sweeps, evictions and clears.       *)
C3_OneFetchPerTag ==
    \A f, g \in 1..Len(fetches) : ~SameTagInFlight(f, g)

(* C4: the running counter equals the sum of sizeBytes over the entries in *)
(* the table, in every state between operations.                           *)
C4_CounterIsSum == currentCacheSize = SumSizes(imageCache)

(* C5: when a fetch succeeds, the initiator and every joiner receive the   *)
(* provider's list, in the provider's order, and the entry of the tag      *)
(* holds that list afterwards.                                             *)
C5_SuccessShared ==
    [][ret'.kind = "fetched" =>
         \A f \in 1..Len(fetches) : \A images \in ProviderLists :
            FetchSuccess(f, images) =>
               /\ ret'.init = Resolved(images)
               /\ fetches[f].joined => ret'.join = Resolved(images)
               /\ Has(imageCache', fetches[f].tag)
               /\ Get(imageCache', fetches[f].tag).images = images]_vars

C5_Witness ==
    /\ ret.kind = "fetched"
    /\ ret.join.st = "resolved"
    /\ ret.init.images = ImageList(2)
    /\ Get(imageCache, ret.tag).images = ret.init.images

(* The table as the eviction pass of a successful fetch leaves it (line    *)
(* 241, before the fetched entry is stored).                               *)
AfterEvictionPass(f, images) ==
    evictLRUEntries(imageCache,
                    SizeAfterFetch(currentCacheSize, fetches[f].cached,
                                   calculateImageDataSize(images)))

NonPending(cache) == {i \in 1..Len(cache) : cache[i].promise = 0}

(* C6: after the eviction pass triggered by a successful fetch, the table  *)
(* holds at most MAX_CACHE_ENTRIES entries or no non-pending entry is left *)
(* in it: pending entries are skipped and the scan goes on removing.       *)
C6_EntryBoundAfterPass ==
    [][\A f \in 1..Len(fetches) : \A images \in ProviderLists :
         FetchSuccess(f, images) =>
            LET after == AfterEvictionPass(f, images).cache IN
            Len(after) <= MAX_CACHE_ENTRIES \/ NonPending(after) = {}]_vars

(* The last step of inserting MAX_CACHE_ENTRIES + 1 distinct tags one      *)
(* after another: the fetch f of a new tag completes while the table holds *)
(* MAX_CACHE_ENTRIES fetched, unexpired entries, nothing else is in flight *)
(* and the sizes stay within MAX_CACHE_SIZE.                               *)
SequentialInsert(f, images) ==
    /\ fetches[f].cached = <<>>
    /\ \A g \in 1..Len(fetches) : ~fetches[g].overlap /\ (InFlight(g) => g = f)
    /\ Len(imageCache) = MAX_CACHE_ENTRIES + 1
    /\ \A i \in 1..Len(imageCache) :
          \/ imageCache[i].promise = f
          \/ /\ imageCache[i].promise = 0
             /\ imageCache[i].lastFetched > 0
             /\ now - imageCache[i].lastFetched < CACHE_DURATION
    /\ currentCacheSize + calculateImageDataSize(images) <= MAX_CACHE_SIZE

(* C7: when MAX_CACHE_ENTRIES + k distinct tags are fetched one after      *)
(* another, exactly MAX_CACHE_ENTRIES entries remain and the absent ones   *)
(* are those with the smallest lastAccessed.                               *)
C7_EvictionBound ==
    [][\A f \in 1..Len(fetches) : \A images \in ProviderLists :
         (FetchSuccess(f, images) /\ SequentialInsert(f, images)) =>
            /\ Len(imageCache') = MAX_CACHE_ENTRIES
            /\ \A i \in 1..Len(imageCache) : \A j \in 1..Len(imageCache') :
                  ~Has(imageCache', imageCache[i].tag) =>
                      imageCache[i].lastAccessed <= imageCache'[j].lastAccessed]_vars

Pending(cache) == {cache[i].tag : i \in {j \in 1..Len(cache) : cache[j].promise # 0}}

(* C8: neither the eviction pass nor the expiry sweep removes an entry     *)
(* whose pending-fetch marker is set.                                      *)
C8_PendingProtected ==
    [][/\ (ret'.kind = "swept" /\ Sweep) => Pending(imageCache) \subseteq Keys(imageCache')
       /\ ret'.kind = "fetched" =>
             \A f \in 1..Len(fetches) : \A images \in ProviderLists :
                FetchSuccess(f, images) =>
                   Pending(imageCache) \subseteq Keys(AfterEvictionPass(f, images).cache)]_vars

C8_Witness ==
    /\ ret.kind = "swept"
    /\ \E i \in 1..Len(imageCache) :
          /\ imageCache[i].promise # 0
          /\ imageCache[i].lastFetched > 0
          /\ now - imageCache[i].lastFetched > CACHE_DURATION

(* C9: no operation (eviction, sweep or clear) removes an entry from the   *)
(* table while a fetch for its tag is pending.                             *)
C9_NeverRemovedWhilePending ==
    [][\A f \in 1..Len(fetches) :
         (InFlight(f) /\ fetches'[f].status = "inflight"
            /\ Has(imageCache, fetches[f].tag))
         => Has(imageCache', fetches[f].tag)]_vars

(* C10: a call that finds an entry with now - lastFetched < CACHE_DURATION *)
(* returns the cached images without invoking the provider, sets the       *)
(* entry's lastAccessed to now and changes nothing else.                   *)
C10_FreshHitFrame ==
    [][\A tag \in Tags :
         (/\ GetImages(tag)
          /\ Has(imageCache, tag)
          /\ now - Get(imageCache, tag).lastFetched < CACHE_DURATION)
         => /\ ret'.kind = "hit"
            /\ ret'.init = Resolved(Get(imageCache, tag).images)
            /\ fetches' = fetches
            /\ currentCacheSize' = currentCacheSize
            /\ Len(imageCache') = Len(imageCache)
            /\ \A i \in 1..Len(imageCache) :
                  imageCache'[i] =
                     IF imageCache[i].tag = tag
                     THEN [imageCache[i] EXCEPT !.lastAccessed = now]
                     ELSE imageCache[i]]_vars

C10_Witness ==
    /\ ret.kind = "hit"
    /\ Len(imageCache) = 2
    /\ Get(imageCache, ret.tag).lastAccessed = now
    /\ now - Get(imageCache, ret.tag).lastFetched = CACHE_DURATION - 1
    /\ Len(ret.init.images) > 0

(* The entry of `tag` is populated (some fetch has completed for it) and   *)
(* carries no pending marker.                                              *)
Populated(cache, tag) ==
    /\ Has(cache, tag)
    /\ Get(cache, tag).promise = 0
    /\ Get(cache, tag).lastFetched > 0

(* C11 as stated: the entry populated by a call made at t0 carries         *)
(* lastFetched = t0, the call time (which the placeholder of line 266      *)
(* holds as lastAccessed while the fetch is in flight), whatever the       *)
(* duration of the fetch.                                                  *)
C11_FreshnessFromCall ==
    [][\A f \in 1..Len(fetches) : \A images \in ProviderLists :
         (/\ FetchSuccess(f, images)
          /\ Has(imageCache, fetches[f].tag)
          /\ Get(imageCache, fetches[f].tag).promise = f)
         => Get(imageCache', fetches[f].tag).lastFetched =
               Get(imageCache, fetches[f].tag).lastAccessed]_vars

(* C11 amended: a fetch that completes at time t1 populates the entry with *)
(* lastFetched = t1, the completion time; a call that finds that entry     *)
(* with now - t1 < CACHE_DURATION is served from the cache without         *)
(* invoking the provider, and a call that finds it with                    *)
(* now - t1 >= CACHE_DURATION starts a new provider fetch.                 *)
C11_FreshnessFromCompletion ==
    [][/\ \A f \in 1..Len(fetches) : \A images \in ProviderLists :
             FetchSuccess(f, images) =>
                Get(imageCache', fetches[f].tag).lastFetched = now
       /\ \A tag \in Tags :
             (GetImagesMore(tag) /\ Populated(imageCache, tag)) =>
                IF now - Get(imageCache, tag).lastFetched < CACHE_DURATION
                THEN /\ ret'.kind = "hit"
                     /\ ret'.init = Resolved(Get(imageCache, tag).images)
                     /\ fetches' = fetches
                ELSE /\ ret'.kind = "fetch"
                     /\ Len(fetches') = Len(fetches) + 1
                     /\ fetches'[Len(fetches')].status = "inflight"
                     /\ fetches'[Len(fetches')].tag = tag]_vars

C11_Witness ==
    /\ ret.kind = "fetch"
    /\ Has(imageCache, ret.tag)
    /\ Get(imageCache, ret.tag).lastFetched = StartTime + 1
    /\ now - Get(imageCache, ret.tag).lastFetched = CACHE_DURATION

(* The fetch f was started by a call that found an entry holding a         *)
(* non-empty image list (necessarily expired, or the call would have hit). *)
HadStaleImages(f) ==
    /\ fetches[f].cached # <<>>
    /\ Len(fetches[f].cached[1].images) > 0

(* C12: stale-on-error.  When the fetch started by a call that found an    *)
(* expired entry with a non-empty image list fails, the call returns that  *)
(* stale list and the entry of the tag still holds it afterwards.          *)
C12_StaleOnError ==
    [][\A f \in 1..Len(fetches) :
         (FetchFailure(f) /\ HadStaleImages(f)) =>
            /\ ret'.init = Resolved(fetches[f].cached[1].images)
            /\ Has(imageCache', fetches[f].tag)
            /\ Get(imageCache', fetches[f].tag).images = fetches[f].cached[1].images]_vars

(* C13: an entry's lastFetched changes only when a fetch for its tag       *)
(* completes successfully (starting a fetch, a failed fetch, a hit, a      *)
(* sweep, the eviction of another entry and a status query leave it as it  *)
(* is), and a failed fetch also leaves the entry's images and sizeBytes    *)
(* and the global size counter unchanged.                                  *)
C13_LastFetchedFrame ==
    [][/\ \A tag \in Tags :
             (/\ Has(imageCache, tag)
              /\ Has(imageCache', tag)
              /\ Get(imageCache', tag).lastFetched # Get(imageCache, tag).lastFetched)
             => \E f \in 1..Len(fetches) : \E images \in ProviderLists :
                   FetchSuccess(f, images) /\ fetches[f].tag = tag
       /\ ret'.kind = "failed" =>
             \A f \in 1..Len(fetches) :
                FetchFailure(f) =>
                   /\ currentCacheSize' = currentCacheSize
                   /\ Keys(imageCache') = Keys(imageCache)
                   /\ \A i \in 1..Len(imageCache) :
                         /\ imageCache'[i].images = imageCache[i].images
                         /\ imageCache'[i].sizeBytes = imageCache[i].sizeBytes
                         /\ imageCache'[i].lastFetched = imageCache[i].lastFetched]_vars

C13_Witness ==
    /\ ret.kind = "failed"
    /\ Has(imageCache, ret.tag)
    /\ Get(imageCache, ret.tag).promise = 0
    /\ Get(imageCache, ret.tag).lastFetched = StartTime + 1
    /\ now - Get(imageCache, ret.tag).lastFetched >= CACHE_DURATION
    /\ Get(imageCache, ret.tag).images = ImageList(2)

(* C14: in the state a successful fetch leaves (its eviction pass done and *)
(* its entry stored), the running total is at most MAX_CACHE_SIZE or no    *)
(* non-pending entry other than the one just fetched remains in the table. *)
C14_SizeBoundAfterPass ==
    ret.kind = "fetched" =>
        \/ currentCacheSize <= MAX_CACHE_SIZE
        \/ \A i \in 1..Len(imageCache) :
              imageCache[i].tag # ret.tag => imageCache[i].promise # 0

C14_Witness ==
    /\ ret.kind = "fetched"
    /\ currentCacheSize > MAX_CACHE_SIZE
    /\ currentCacheSize = SumSizes(imageCache)
    /\ Len(imageCache) = 2

(* C15: in every reachable state every entry of the table (placeholder,    *)
(* populated entry or entry left by a failed fetch) has sizeBytes equal to *)
(* 1024 times the number of images it holds and count equal to that        *)
(* number.                                                                 *)
C15_SizeMatchesImages ==
    \A i \in 1..Len(imageCache) :
        /\ imageCache[i].sizeBytes = 1024 * Len(imageCache[i].images)
        /\ imageCache[i].count = Len(imageCache[i].images)

C15_Witness ==
    \E i \in 1..Len(imageCache) :
        /\ imageCache[i].promise # 0
        /\ Len(imageCache[i].images) = 2
        /\ imageCache[i].sizeBytes = 2048
        /\ imageCache[i].count = 2

(* The entries a sweep at time t is to remove: no pending fetch and        *)
(* t - lastFetched > CACHE_DURATION.                                       *)
Sweepable(e, t) == e.promise = 0 /\ t - e.lastFetched > CACHE_DURATION

(* C16: one run of the expiry sweep at time now removes exactly the        *)
(* entries without a pending fetch whose now - lastFetched exceeds         *)
(* CACHE_DURATION, leaves every other entry untouched, subtracts the       *)
(* removed entries' sizeBytes from the running total and returns the       *)
(* number of entries it removed.                                           *)
C16_SweepExact ==
    [][Sweep =>
         LET gone == SelectSeq(imageCache, LAMBDA e : Sweepable(e, now))
             kept == SelectSeq(imageCache, LAMBDA e : ~Sweepable(e, now))
         IN /\ imageCache' = kept
            /\ currentCacheSize' = currentCacheSize - SumSizes(gone)
            /\ ret'.n = Len(gone)]_vars

C16_Witness ==
    /\ ret.kind = "swept"
    /\ ret.n = 1
    /\ Len(imageCache) = 1
    /\ imageCache[1].promise = 0
    /\ now - imageCache[1].lastFetched = CACHE_DURATION
    /\ currentCacheSize = imageCache[1].sizeBytes

(* C17: the expiry sweep is idempotent: a second run at the same clock     *)
(* value, with no operation in between, removes nothing, returns 0 and     *)
(* leaves the table and the size counter as the first run left them.       *)
C17_SweepIdempotent ==
    [][(ret.kind = "swept" /\ Sweep) =>
          /\ imageCache' = imageCache
          /\ currentCacheSize' = currentCacheSize
          /\ ret'.n = 0]_vars

C17_Witness ==
    /\ ret.kind = "swept"
    /\ ret.n = 1
    /\ Len(imageCache) = 1
    /\ imageCache[1].promise # 0
    /\ now - imageCache[1].lastFetched > CACHE_DURATION

(* The entry of `tag` is older than CACHE_DURATION. *)
Expired(tag) ==
    Has(imageCache, tag) /\ now - Get(imageCache, tag).lastFetched > CACHE_DURATION

(* The task that just ran was a call for `tag`. *)
Requested(tag) == ret.tag = tag /\ ret.kind \in {"hit", "join", "fetch"}

(* C18: automatic expiry.  With the sweep timer firing and every fetch     *)
(* settling, an entry older than CACHE_DURATION does not stay in the table *)
(* unless its tag is requested again: it is removed, or a fetch that was   *)
(* still in flight for it completes and renews it.  No clear is needed.    *)
C18_ExpiredEventuallyRemoved ==
    \A tag \in Tags :
        Expired(tag) ~> (~Has(imageCache, tag) \/ ~Expired(tag) \/ Requested(tag))

C18_Witness ==
    /\ ret.kind = "swept"
    /\ ret.n = 2
    /\ imageCache = <<>>
    /\ \A f \in 1..Len(fetches) : ~InFlight(f) /\ ~fetches[f].overlap

(* C19: secure by default.  With no secret configured (CACHE_API_KEY unset *)
(* or empty) no status or clear request is ever granted, whatever          *)
(* Authorization header it carries: each one answers unauthorized.         *)
C19_NoKeyDeniesAll == ret.kind \notin {"cleared", "status"}

C19_Witness ==
    /\ ret.kind = "unauthorized"
    /\ Len(imageCache) = 1
    /\ imageCache[1].promise = 0
    /\ currentCacheSize = 2048

(* C20: with a secret configured, a request is granted if and only if its  *)
(* Authorization header is 'Bearer ' followed by exactly the secret; a     *)
(* missing header, another scheme or any other credential is refused.      *)
C20_ExactBearerOnly ==
    [][\A authHeader \in AdminHeaders :
          /\ CacheClear(Secret, authHeader) =>
                (ret'.kind = "cleared" <=> authHeader = BearerPrefix \o Secret)
          /\ CacheStatus(Secret, authHeader) =>
                (ret'.kind = "status" <=> authHeader = BearerPrefix \o Secret)]_vars

C20_Witness ==
    /\ ret.kind = "status"
    /\ ret.body.totalEntries = 1
    /\ ret.body.cacheEntries[1].hasActiveRequest

(* The request carries the credential the server is configured with. *)
Authorized(key, authHeader) == key # <<>> /\ authHeader = BearerPrefix \o key

(* C21: a status or clear request without the right credential is answered *)
(* 401 with a challenge and leaves the table, every entry and the size     *)
(* counter as they were; an unauthorized clear removes nothing.            *)
C21_UnauthorizedFrame ==
    [][\A key \in ApiKeys : \A authHeader \in AdminHeaders :
          (/\ ~Authorized(key, authHeader)
           /\ CacheClear(key, authHeader) \/ CacheStatus(key, authHeader))
          => /\ ret'.kind = "unauthorized"
             /\ ret'.status = 401
             /\ ret'.wwwAuthenticate # ""
             /\ imageCache' = imageCache
             /\ currentCacheSize' = currentCacheSize
             /\ fetches' = fetches]_vars

C21_Witness ==
    /\ ret.kind = "unauthorized"
    /\ ret.status = 401
    /\ Len(imageCache) = 1
    /\ imageCache[1].promise # 0
    /\ Len(imageCache[1].images) = 2

(* C22: in the state an authorized clear leaves, a status query reports    *)
(* no entry and a total size of zero, and a call for any tag (so for every *)
(* tag that was cached before the clear) starts a provider fetch instead   *)
(* of answering from the cache.                                            *)
C22_ClearSemantics ==
    [][ret.kind = "cleared" =>
          /\ \A key \in ApiKeys : \A authHeader \in AdminHeaders :
                (CacheStatus(key, authHeader) /\ Authorized(key, authHeader)) =>
                   /\ ret'.kind = "status"
                   /\ ret'.body.totalEntries = 0
                   /\ ret'.body.cacheEntries = <<>>
                   /\ ret'.body.totalSizeMB = 0
                   /\ currentCacheSize = 0
          /\ \A tag \in Tags :
                GetImages(tag) =>
                   /\ ret'.kind = "fetch"
                   /\ Len(fetches') = Len(fetches) + 1
                   /\ fetches'[Len(fetches')].status = "inflight"
                   /\ fetches'[Len(fetches')].tag = tag
                   /\ fetches'[Len(fetches')].cached = <<>>]_vars

C22_Witness ==
    /\ ret.kind = "cleared"
    /\ ret.n = 1
    /\ ret.size = 2
    /\ Len(fetches) = 1
    /\ ~InFlight(1)

(* C23: status is a read-only snapshot.  It changes no entry (not even     *)
(* lastAccessed) and not the size counter, and a granted status lists      *)
(* every entry of the table with expired = (now - lastFetched >            *)
(* CACHE_DURATION) and hasActiveRequest = (pending marker set), with       *)
(* totalEntries the number of entries listed.                              *)
C23_StatusReadOnly ==
    [][\A authHeader \in Headers :
          (ret'.kind \in {"status", "unauthorized"} /\ CacheStatus(Secret, authHeader)) =>
             /\ imageCache' = imageCache
             /\ currentCacheSize' = currentCacheSize
             /\ fetches' = fetches
             /\ ret'.kind = "status" =>
                   LET listed == ret'.body.cacheEntries IN
                   /\ ret'.body.totalEntries = Len(listed)
                   /\ Len(listed) = Len(imageCache)
                   /\ \A i \in 1..Len(imageCache) :
                         /\ listed[i].tag = imageCache[i].tag
                         /\ listed[i].expired =
                               (now - imageCache[i].lastFetched > CACHE_DURATION)
                         /\ listed[i].hasActiveRequest = (imageCache[i].promise # 0)]_vars

C23_Witness ==
    /\ ret.kind = "status"
    /\ ret.body.totalEntries = 2
    /\ \E i \in 1..2 :
          /\ ret.body.cacheEntries[i].expired
          /\ ~ret.body.cacheEntries[i].hasActiveRequest
          /\ imageCache[i].lastAccessed > imageCache[i].lastFetched
    /\ \E i \in 1..2 : ret.body.cacheEntries[i].hasActiveRequest

(* C24: the image cache is cleared when the site content is edited: a call *)
(* that follows a content edit is never answered from the cache with a     *)
(* list that was cached before the edit.                                   *)
C24_ClearedOnContentEdit ==
    [][ret.kind = "edited" =>
          \A tag \in Tags : GetImages(tag) => ret'.kind # "hit"]_vars

(* C25: in every state in which no fetch is in flight and the task that    *)
(* just ran was a fetch settling (success or failure), the table holds at  *)
(* most MAX_CACHE_ENTRIES entries, however the calls on distinct tags and  *)
(* their completions interleave.                                           *)
C25_SystemEntryBound ==
    (/\ ret.kind \in {"fetched", "failed"}
     /\ \A f \in 1..Len(fetches) : ~InFlight(f))
    => Len(imageCache) <= MAX_CACHE_ENTRIES

(* C26: a fetch that was in flight when an authorized clear ran is not     *)
(* cancelled.  If it succeeds, its result is stored in the table for its   *)
(* tag (with no new call needed); if it fails, the table and the counter   *)
(* stay as they were.                                                      *)
C26_InFlightSurvivesClear ==
    [][\A f \in 1..Len(fetches) :
          fetches[f].cleared =>
             /\ \A images \in ProviderLists :
                   FetchSuccess(f, images) =>
                      /\ Has(imageCache', fetches[f].tag)
                      /\ Get(imageCache', fetches[f].tag).images = images
                      /\ Get(imageCache', fetches[f].tag).promise = 0
                      /\ Get(imageCache', fetches[f].tag).lastFetched = now
                      /\ ret'.init = Resolved(images)
             /\ FetchFailure(f) =>
                   /\ imageCache' = imageCache
                   /\ currentCacheSize' = currentCacheSize]_vars

C26_Witness ==
    /\ ret.kind = "fetched"
    /\ currentCacheSize < 0
    /\ Len(imageCache) = 1
    /\ imageCache[1].tag = ret.tag
    /\ \A f \in 1..Len(fetches) : ~InFlight(f)

(* The call for `tag` is a miss or finds an expired entry, and no fetch is *)
(* pending in the entry.                                                   *)
MissOrExpiry(tag) ==
    \/ ~Has(imageCache, tag)
    \/ /\ now - Get(imageCache, tag).lastFetched >= CACHE_DURATION
       /\ Get(imageCache, tag).promise = 0

(* C27: on a miss or expiry with no pending fetch, the step that starts    *)
(* the provider fetch also records the placeholder, so that no other task  *)
(* sees the tag without its pending marker; the placeholder keeps the      *)
(* previous entry's images, lastFetched, count and sizeBytes (empty and    *)
(* zero when there was none) and has lastAccessed set to the call time.    *)
C27_PlaceholderAtomic ==
    [][\A tag \in Tags :
          (GetImagesMore(tag) /\ MissOrExpiry(tag)) =>
             LET new == Len(fetches')
                 e == Get(imageCache', tag)
             IN /\ new = Len(fetches) + 1
                /\ fetches'[new].status = "inflight"
                /\ fetches'[new].tag = tag
                /\ Has(imageCache', tag)
                /\ e.promise = new
                /\ e.lastAccessed = now
                /\ IF Has(imageCache, tag)
                   THEN /\ e.images = Get(imageCache, tag).images
                        /\ e.lastFetched = Get(imageCache, tag).lastFetched
                        /\ e.count = Get(imageCache, tag).count
                        /\ e.sizeBytes = Get(imageCache, tag).sizeBytes
                   ELSE /\ e.images = <<>>
                        /\ e.lastFetched = 0
                        /\ e.count = 0
                        /\ e.sizeBytes = 0
                /\ currentCacheSize' = currentCacheSize]_vars

C27_Witness ==
    /\ ret.kind = "fetch"
    /\ Has(imageCache, ret.tag)
    /\ Get(imageCache, ret.tag).promise = Len(fetches)
    /\ Get(imageCache, ret.tag).images = ImageList(2)
    /\ Get(imageCache, ret.tag).sizeBytes = 2048
    /\ Get(imageCache, ret.tag).lastFetched = StartTime
    /\ Get(imageCache, ret.tag).lastAccessed = StartTime + CACHE_DURATION + 1
    /\ now = StartTime + CACHE_DURATION + 1

(* One tag with the clear command and every fetch settling: the life of a  *)
(* pending marker.                                                         *)
NextPending ==
    \/ \E tag \in OneTag : GetImages(tag)
    \/ \E f \in 1..Len(fetches) : \E images \in SmallLists : FetchSuccess(f, images)
    \/ \E f \in 1..Len(fetches) : FetchFailure(f)
    \/ Sweep
    \/ CacheClear(Secret, BearerPrefix \o Secret)
    \/ \E t \in ClockValues : Tick(t)

SpecPending ==
    /\ Init
    /\ [][NextPending]_vars
    /\ \A f \in 1..MaxFetches : WF_vars(Settle(f))

(* Some entry carries the promise of fetch f as its pending marker. *)
MarkerOf(f) == \E i \in 1..Len(imageCache) : imageCache[i].promise = f

(* C28: when every provider fetch settles, a pending marker does not stay: *)
(* the entry has it cleared or is removed.  A marker always names a fetch  *)
(* of its own tag that is still in flight, so none outlives the fetch that *)
(* set it.                                                                 *)
C28_PendingMarkerLiveness ==
    /\ [](\A i \in 1..Len(imageCache) :
             imageCache[i].promise # 0 =>
                /\ imageCache[i].promise \in 1..Len(fetches)
                /\ InFlight(imageCache[i].promise)
                /\ fetches[imageCache[i].promise].tag = imageCache[i].tag)
    /\ \A f \in 1..MaxFetches : MarkerOf(f) ~> ~MarkerOf(f)

C28_Witness ==
    /\ ret.kind = "failed"
    /\ Len(imageCache) = 1
    /\ imageCache[1].promise = 0
    /\ imageCache[1].images # <<>>
    /\ \A f \in 1..Len(fetches) : ~InFlight(f)

(* Three tags whose fetches all succeed with one image, no clear and no    *)
(* sweep: which entries an eviction pass removes.                          *)
NextOrder ==
    \/ \E tag \in ManyTags : GetImagesMore(tag)
    \/ \E f \in 1..Len(fetches) : FetchSuccess(f, ImageList(1))
    \/ \E t \in ClockValues : Tick(t)

SpecOrder == Init /\ [][NextOrder]_vars

(* C29: LRU order.  The entries that the eviction pass of a completing     *)
(* fetch removes are not pending, and no non-pending entry that the pass   *)
(* leaves in the table has a strictly smaller lastAccessed than a removed  *)
(* one.  (The entry of the completing fetch's own tag is rewritten after   *)
(* the pass and is left out.)                                              *)
C29_LRUOrder ==
    [][ret'.kind = "fetched" =>
          \A i \in 1..Len(imageCache) :
             (imageCache[i].tag # ret'.tag /\ ~Has(imageCache', imageCache[i].tag)) =>
                /\ imageCache[i].promise = 0
                /\ \A k \in 1..Len(imageCache') :
                      (imageCache'[k].tag # ret'.tag /\ imageCache'[k].promise = 0) =>
                         imageCache'[k].lastAccessed >= imageCache[i].lastAccessed]_vars

(* The entry fetched second was removed although the one fetched first is  *)
(* still there: the first was used again in between.                       *)
C29_Witness ==
    /\ ret.kind = "fetched"
    /\ Len(fetches) = 3
    /\ \A f \in 1..3 : ~InFlight(f)
    /\ fetches[1].tag # fetches[2].tag
    /\ fetches[3].tag \notin {fetches[1].tag, fetches[2].tag}
    /\ ret.tag = fetches[3].tag
    /\ Len(imageCache) = 2
    /\ Has(imageCache, fetches[1].tag)
    /\ ~Has(imageCache, fetches[2].tag)
    /\ Get(imageCache, fetches[1].tag).images # <<>>
    /\ Get(imageCache, fetches[1].tag).lastAccessed
          > Get(imageCache, fetches[1].tag).lastFetched

(* C30: an authorized clear reports entriesCleared equal to the number of  *)
(* entries in the table just before it and sizeCleared equal to the sum of *)
(* their sizeBytes in KB (rounded to the nearest KB); pending placeholders *)
(* count with the size they carry.                                         *)
C30_ClearReport ==
    [][CacheClear(Secret, BearerPrefix \o Secret) =>
          /\ ret'.kind = "cleared"
          /\ ret'.n = Cardinality(Keys(imageCache))
          /\ ret'.size = Round(SumSizes(imageCache), 1024)]_vars

C30_Witness ==
    /\ ret.kind = "cleared"
    /\ ret.n = 1
    /\ ret.size = 1
    /\ imageCache = <<>>
    /\ \E f \in 1..Len(fetches) :
          /\ InFlight(f)
          /\ fetches[f].cleared
          /\ fetches[f].cached # <<>>
          /\ fetches[f].cached[1].sizeBytes = 1024

(* C31: the pending marker mirrors the provider.  In every state a tag has *)
(* an entry with its pending marker set if and only if a provider fetch    *)
(* for that tag is in flight (so status never says hasActiveRequest false  *)
(* for a tag whose fetch is running).                                      *)
C31_MarkerMirrorsProvider ==
    \A tag \in Tags :
        (Has(imageCache, tag) /\ Get(imageCache, tag).promise # 0)
           <=> (\E f \in 1..Len(fetches) : InFlight(f) /\ fetches[f].tag = tag)

(* C32: the running size counter is never negative, under any interleaving *)
(* of calls, fetch completions, evictions, sweeps and clears.              *)
C32_CounterNonNegative == currentCacheSize >= 0

(* Two tags and answers that alone exceed MAX_CACHE_SIZE, with the clear   *)
(* command: what the eviction pass of a completion does to the completing  *)
(* tag.                                                                    *)
NextHuge ==
    \/ \E tag \in Tags : GetImages(tag)
    \/ \E f \in 1..Len(fetches) : \E images \in HugeLists : FetchSuccess(f, images)
    \/ \E f \in 1..Len(fetches) : FetchFailure(f)
    \/ CacheClear(Secret, BearerPrefix \o Secret)
    \/ \E t \in ClockValues : Tick(t)

SpecHuge == Init /\ [][NextHuge]_vars

(* C33: right after a fetch has succeeded its tag is in the table, holding *)
(* the fetched images with no pending marker; the eviction pass of that    *)
(* completion does not remove it, even when it is the least recently used  *)
(* or larger than MAX_CACHE_SIZE on its own.                               *)
C33_CompletedTagPresent ==
    ret.kind = "fetched" =>
        /\ Has(imageCache, ret.tag)
        /\ Get(imageCache, ret.tag).images = ret.init.images
        /\ Get(imageCache, ret.tag).count = Len(ret.init.images)
        /\ Get(imageCache, ret.tag).promise = 0

(* The completed entry exceeds MAX_CACHE_SIZE by itself; the pass removed  *)
(* the other tag's entry and kept this one.                                *)
C33_Witness ==
    /\ ret.kind = "fetched"
    /\ Len(fetches) = 2
    /\ fetches[1].tag # fetches[2].tag
    /\ ~InFlight(1) /\ ~InFlight(2)
    /\ Keys(imageCache) = {ret.tag}
    /\ Get(imageCache, ret.tag).sizeBytes > MAX_CACHE_SIZE
    /\ currentCacheSize > MAX_CACHE_SIZE

(* C34: failures are not cached.  Right after a fetch for a tag has failed *)
(* a call for that tag is never answered as a fresh hit, and when no fetch *)
(* is pending in the entry it invokes the provider again.                  *)
C34_FailureNotCached ==
    [][(ret.kind = "failed" /\ \E tag \in Tags : tag = ret.tag /\ GetImages(tag)) =>
          /\ ret'.kind # "hit"
          /\ (~Has(imageCache, ret.tag) \/ Get(imageCache, ret.tag).promise = 0) =>
                (ret'.kind = "fetch" /\ Len(fetches') = Len(fetches) + 1)]_vars

(* C35: expiry is judged consistently.  For every entry at every clock     *)
(* value, a call for its tag would be served from the cache without a      *)
(* fetch exactly when status reports expired = false for it and the sweep  *)
(* would leave it in the table (age exactly CACHE_DURATION included).      *)
C35_ExpiryConsistent ==
    \A i \in 1..Len(imageCache) :
        IsValidCache(<<imageCache[i]>>, now)
           <=> /\ ~StatusEntry(imageCache[i], now).expired
               /\ Has(cleanupExpiredEntries(imageCache, currentCacheSize, now).cache,
                      imageCache[i].tag)

(* C36: a successful fetch of zero images is cached like any other.  While *)
(* less than CACHE_DURATION has passed since it completed, a call for the  *)
(* tag returns the empty list from the cache and starts no fetch; this     *)
(* holds for the call right after the completion and for every entry that  *)
(* holds an empty list fetched less than CACHE_DURATION ago.               *)
C36_EmptyResultCached ==
    [][\A tag \in OneTag :
          (/\ GetImages(tag)
           /\ \/ ret.kind = "fetched" /\ ret.tag = tag /\ ret.init = Resolved(<<>>)
              \/ /\ Has(imageCache, tag)
                 /\ Get(imageCache, tag).images = <<>>
                 /\ Get(imageCache, tag).lastFetched >= StartTime
                 /\ now - Get(imageCache, tag).lastFetched < CACHE_DURATION) =>
             /\ ret'.kind = "hit"
             /\ ret'.init = Resolved(<<>>)
             /\ fetches' = fetches
             /\ Get(imageCache', tag).images = <<>>
             /\ Get(imageCache', tag).lastFetched = Get(imageCache, tag).lastFetched]_vars

C36_Witness ==
    /\ ret.kind = "hit"
    /\ ret.init = Resolved(<<>>)
    /\ Len(imageCache) = 1
    /\ imageCache[1].images = <<>>
    /\ imageCache[1].promise = 0
    /\ imageCache[1].lastFetched = StartTime
    /\ imageCache[1].lastAccessed = StartTime + 1
    /\ Len(fetches) = 1

(* From the loaded module: the main block and any later caller start the   *)
(* periodic cleanup, whose timers run the sweep.                           *)
NextTimer ==
    \/ StartPeriodicCleanup
    \/ \E tag \in OneTag : GetImages(tag)
    \/ \E f \in 1..Len(fetches) : \E images \in ProviderLists : FetchSuccess(f, images)
    \/ \E f \in 1..Len(fetches) : FetchFailure(f)
    \/ Sweep
    \/ \E t \in ClockValues : Tick(t)

SpecTimer == InitLoaded /\ [][NextTimer]_vars

(* C37: startPeriodicCleanup is idempotent.  However often it is called,   *)
(* at most one repeating sweep timer exists (the one cleanupInterval       *)
(* names), and a call after the first leaves the timer state unchanged.    *)
C37_CleanupStartedOnce ==
    /\ [](/\ Cardinality(timers) <= 1
          /\ cleanupInterval # 0 => timers = {cleanupInterval}
          /\ cleanupInterval = 0 => timers = {})
    /\ [][(StartPeriodicCleanup /\ timers # {}) => UNCHANGED timerVars]_vars

C37_Witness ==
    /\ ret.kind = "running"
    /\ timers = {1}
    /\ cleanupInterval = 1

(* C38: an eviction pass that finds at most MAX_CACHE_ENTRIES entries and  *)
(* a running size of at most MAX_CACHE_SIZE is a no-op.  In the completion *)
(* that runs it, every entry of another tag stays as it was and the        *)
(* counter keeps the value it had when the pass began.                     *)
C38_EvictionNoOp ==
    [][\A f \in 1..Len(fetches) : \A images \in HugeLists :
          LET size == SizeAfterFetch(currentCacheSize, fetches[f].cached,
                                     calculateImageDataSize(images))
          IN (/\ FetchSuccess(f, images)
              /\ Len(imageCache) <= MAX_CACHE_ENTRIES
              /\ size <= MAX_CACHE_SIZE) =>
                /\ currentCacheSize' = size
                /\ \A i \in 1..Len(imageCache) :
                      imageCache[i].tag # fetches[f].tag =>
                         /\ Has(imageCache', imageCache[i].tag)
                         /\ Get(imageCache', imageCache[i].tag) = imageCache[i]]_vars

(* The table is exactly at the entry limit after a completion whose pass   *)
(* had nothing to do.                                                      *)
C38_Witness ==
    /\ ret.kind = "fetched"
    /\ Len(imageCache) = MAX_CACHE_ENTRIES
    /\ \A i \in 1..Len(imageCache) :
          imageCache[i].promise = 0 /\ imageCache[i].sizeBytes = 1024
    /\ currentCacheSize = 2048
    /\ \A f \in 1..Len(fetches) : ~InFlight(f)

====
